---- MODULE Spec2Model ----
(***************************************************************************)
(* Model of the Infineon chat-completion client of cli4ifx                 *)
(* (internal/llm/provider/infineon.go, provider.go): the retry controller  *)
(* shouldRetry, the retry loops of send and of stream-open, and the        *)
(* stream translator that turns backend chunks into ProviderEvents.        *)
(*                                                                         *)
(* One behaviour of Spec is one invocation of send or of stream.  The      *)
(* backend is the environment: it answers every call with a completion or  *)
(* a stream or an error, and every Recv with a chunk, io.EOF or a          *)
(* transport error.  SpecCancel adds the caller of stream, who may cancel  *)
(* the context and stop receiving.  SpecProvider is the construction of a  *)
(* provider and the preparation of the request from messages and tools.    *)
(* Whether a range loop has one variable or one per iteration depends on   *)
(* the language version of the build; both are initial states.             *)
(* A Go pointer or optional value is a sequence of length 0 (nil) or 1.    *)
(***************************************************************************)
EXTENDS Integers, Sequences, FiniteSets, TLC

\* provider.go:15
maxRetries == 8

\* Number of chunks the backend delivers at most before it ends the stream.
MaxChunks == 2

Nil == <<>>
Some(v) == <<v>>

(***************************************************************************)
(* Errors.  API carries the *shared.APIError a backend error is (status    *)
(* code and Retry-After response header), Unwrap the error a %w wraps.     *)
(***************************************************************************)
APIError(status, retryAfter) ==
    [Msg |-> "api error", API |-> Some([StatusCode |-> status, RetryAfter |-> retryAfter]),
     Unwrap |-> Nil]

PlainError(msg) == [Msg |-> msg, API |-> Nil, Unwrap |-> Nil]

\* Values of the Retry-After header the backend sends: none, seconds, junk.
RetryAfterHeaders == {"", "2", "soon"}

StatusCodes == {400, 499, 500, 503, 599, 600}

\* What a failed CreateChatCompletion / CreateChatCompletionStream returns.
BackendErrors ==
    {PlainError("connection reset")}
    \cup {APIError(429, h) : h \in RetryAfterHeaders}
    \cup {APIError(s, "") : s \in StatusCodes}

\* What a failed stream.Recv returns (anything but io.EOF).
TransportErrors == {PlainError("unexpected EOF"), PlainError("context canceled")}

\* infineon.go:421  fmt.Errorf("max retries reached: %w", err)
MaxRetriesError(err) == [Msg |-> "max retries reached", API |-> Nil, Unwrap |-> Some(err)]

\* infineon.go:398-401  errors.As(err, &apiErr); backend errors are not wrapped
errorsAs(err) == err.API

(***************************************************************************)
(* time.ParseDuration on the header with "s" appended, in nanoseconds,     *)
(* for the header values of RetryAfterHeaders.                             *)
(***************************************************************************)
Second == 1000000000
Millisecond == 1000000

ParseDuration(s) ==
    IF s = "2s" THEN [ok |-> TRUE, d |-> 2 * Second]
    ELSE [ok |-> FALSE, d |-> 0]

\* time.Duration.Milliseconds
Milliseconds(d) == d \div Millisecond

\* infineon.go:414, 423  int64(1000 * (1 << attempts))
backoff(attempts) == 1000 * (2 ^ attempts)

\* infineon.go:420  attempts >= maxRetries-1
serverErrorUncapped(attempts) == FALSE
serverErrorExhausted(attempts) == attempts >= maxRetries - 1

\* infineon.go:404-416  the 429 branch of shouldRetry
rateLimitIgnoresHeader(attempts, apiErr) ==
    [retry |-> TRUE, delay |-> backoff(attempts), fatal |-> Nil]
rateLimitDecision(attempts, apiErr) ==
    LET parsed == ParseDuration(apiErr.RetryAfter \o "s") IN
    IF apiErr.RetryAfter # "" /\ parsed.ok
    THEN [retry |-> TRUE, delay |-> Milliseconds(parsed.d), fatal |-> Nil]
    ELSE [retry |-> TRUE, delay |-> backoff(attempts), fatal |-> Nil]

\* infineon.go:397-428
shouldRetryThrough600(attempts, err) ==
    LET as == errorsAs(err) IN
    IF as = Nil THEN [retry |-> FALSE, delay |-> 0, fatal |-> Nil]
    ELSE LET apiErr == as[1] IN
         IF apiErr.StatusCode = 429 THEN rateLimitDecision(attempts, apiErr)
         ELSE IF apiErr.StatusCode >= 500 /\ apiErr.StatusCode <= 600
         THEN IF serverErrorExhausted(attempts)
              THEN [retry |-> FALSE, delay |-> 0, fatal |-> Some(MaxRetriesError(err))]
              ELSE [retry |-> TRUE, delay |-> backoff(attempts), fatal |-> Nil]
         ELSE [retry |-> FALSE, delay |-> 0, fatal |-> Nil]
shouldRetry(attempts, err) ==
    LET as == errorsAs(err) IN
    IF as = Nil THEN [retry |-> FALSE, delay |-> 0, fatal |-> Nil]
    ELSE LET apiErr == as[1] IN
         IF apiErr.StatusCode = 429 THEN rateLimitDecision(attempts, apiErr)
         ELSE IF apiErr.StatusCode >= 500 /\ apiErr.StatusCode < 600
         THEN IF serverErrorExhausted(attempts)
              THEN [retry |-> FALSE, delay |-> 0, fatal |-> Some(MaxRetriesError(err))]
              ELSE [retry |-> TRUE, delay |-> backoff(attempts), fatal |-> Nil]
         ELSE [retry |-> FALSE, delay |-> 0, fatal |-> Nil]

\* infineon.go:199, 253  the loop condition attempts < maxRetries
loopCondOffByOne(attempts) == attempts <= maxRetries
loopCond(attempts) == attempts < maxRetries

(***************************************************************************)
(* One failed iteration of the retry loop (infineon.go:205-215, 259-276)   *)
(* and, when the loop condition then fails, the check after the loop       *)
(* (217-219, 279-285): the error the caller is left with, if any, and the  *)
(* next value of attempts.                                                 *)
(***************************************************************************)
afterFailure(attempts, err) ==
    LET r == shouldRetry(attempts, err) IN
    IF r.fatal # Nil THEN [returned |-> r.fatal, attempts |-> attempts]
    ELSE IF ~r.retry THEN [returned |-> Some(err), attempts |-> attempts]
    ELSE IF ~loopCond(attempts + 1) THEN [returned |-> Some(err), attempts |-> attempts + 1]
    ELSE [returned |-> Nil, attempts |-> attempts + 1]

\* The inputs and the result of the latest shouldRetry call of the loop.
NoDecision == [called |-> FALSE, attempts |-> 0, err |-> Nil,
               res |-> [retry |-> FALSE, delay |-> 0, fatal |-> Nil]]
Decision(attempts, err) ==
    [called |-> TRUE, attempts |-> attempts, err |-> Some(err), res |-> shouldRetry(attempts, err)]

(***************************************************************************)
(* Backend data.  A chunk has zero or one choice (the code reads only      *)
(* Choices[0]); a choice has an optional text delta, a list of tool-call   *)
(* deltas and a finish reason ("" when absent).                            *)
(***************************************************************************)
Delta(index, id, name, arguments) ==
    [Index |-> index, ID |-> id, Name |-> name, Arguments |-> arguments]

Choice(content, deltas, finish) ==
    [Content |-> content, ToolCalls |-> deltas, FinishReason |-> finish]

Chunk(content, deltas, finish) == [Choices |-> <<Choice(content, deltas, finish)>>]

NoChoicesChunk == [Choices |-> <<>>]

\* The tool-call delta lists a chunk may carry.
DeltaLists ==
    { <<Delta(0, Some("c1"), Some("lo"), Nil)>>,
      <<Delta(0, Nil, Some("up"), Some("{a"))>>,
      <<Delta(0, Nil, Nil, Some("}"))>>,
      <<Delta(1, Some("c2"), Some("f"), Some("x"))>>,
      <<Delta(1, Nil, Nil, Some("y"))>>,
      <<Delta(0, Some("c1"), Nil, Nil), Delta(1, Some("c2"), Nil, Nil)>>,
      <<Delta(0, Nil, Nil, Some("x")), Delta(1, Nil, Some("g"), Some("y"))>>,
      <<Delta(0, Some("c1"), Some("lo"), Some("{a")), Delta(0, Nil, Some("up"), Some("}"))>>,
      <<Delta(0 - 1, Some("c3"), Some("n"), Some("z"))>>,
      <<Delta(2, Nil, Nil, Some("x"))>> }

\* The chunks stream.Recv may return.
Chunks ==
    {NoChoicesChunk}
    \cup {Chunk(Some("he"), <<>>, ""), Chunk(Some("y"), <<>>, "stop")}
    \cup {Chunk(Nil, <<>>, "tool_calls"), Chunk(Nil, <<>>, "eos")}
    \cup {Chunk(Nil, ds, "") : ds \in DeltaLists}
    \cup {Chunk(Some("a"), <<Delta(0, Some("c1"), Some("lookup"), Some("{}"))>>, "tool_calls")}

\* The completions a successful CreateChatCompletion may return.
Completions ==
    { [Choices |-> <<>>],
      [Choices |-> <<[Content |-> Nil, ToolCalls |-> <<>>, FinishReason |-> "stop"]>>],
      [Choices |-> <<[Content |-> Some("hi"), ToolCalls |-> <<>>, FinishReason |-> "length"]>>],
      [Choices |-> <<[Content |-> Nil,
                      ToolCalls |-> <<[ID |-> "c1", Name |-> "lookup", Arguments |-> "{}"]>>,
                      FinishReason |-> "tool_calls"]>>],
      [Choices |-> <<[Content |-> Some("no"), ToolCalls |-> <<>>,
                      FinishReason |-> "content_filter"]>>],
      [Choices |-> <<[Content |-> Some("hi"), ToolCalls |-> <<>>, FinishReason |-> "eos"]>>] }

(***************************************************************************)
(* Provider types (provider.go:13-52).                                     *)
(***************************************************************************)
EventContentStart == "content_start"
EventToolUseStart == "tool_use_start"
EventToolUseDelta == "tool_use_delta"
EventToolUseStop == "tool_use_stop"
EventContentDelta == "content_delta"
EventContentStop == "content_stop"
EventComplete == "complete"
EventError == "error"

\* message.FinishReason values; ZeroFinishReason is an unassigned variable.
FinishReasonStop == "Stop"
FinishReasonLength == "Length"
FinishReasonToolCalls == "ToolCalls"
FinishReasonContentFilter == "ContentFilter"
FinishReasonUnknown == "Unknown"
ZeroFinishReason == ""

ToolCall(id, name, input) == [ID |-> id, Name |-> name, Input |-> input]

TokenUsage(in, out) ==
    [InputTokens |-> in, OutputTokens |-> out, CacheCreationTokens |-> 0, CacheReadTokens |-> 0]

ProviderResponse(content, toolCalls, usage, finish) ==
    [Content |-> content, ToolCalls |-> toolCalls, Usage |-> usage, FinishReason |-> finish]

ProviderEvent(type, content, toolCall, response, error) ==
    [Type |-> type, Content |-> content, ToolCall |-> toolCall, Response |-> response,
     Error |-> error]

ErrorEvent(err) == ProviderEvent(EventError, "", Nil, Nil, Some(err))
ToolEvent(type, toolCall) == ProviderEvent(type, "", Some(toolCall), Nil, Nil)
PlainEvent(type) == ProviderEvent(type, "", Nil, Nil, Nil)

\* infineon.go:161-174
finishReason(reason) ==
    CASE reason = "stop" -> FinishReasonStop
      [] reason = "length" -> FinishReasonLength
      [] reason = "tool_calls" -> FinishReasonToolCalls
      [] reason = "content_filter" -> FinishReasonContentFilter
      [] OTHER -> FinishReasonUnknown

(***************************************************************************)
(* The chunk-consumption loop body (infineon.go:311-368) as a function of  *)
(* the goroutine's locals st = [content, toolCalls, finishReason, events], *)
(* events being what it has sent on eventChan so far.  startedBy and       *)
(* applied record which delta index started each tool call and to which    *)
(* tool call each fragment went.                                           *)
(***************************************************************************)
\* infineon.go:329-343  a delta outside the list's bounds that carries an ID
startToolCall(st, d) ==
    IF (d.Index < 0 \/ d.Index >= Len(st.toolCalls)) /\ d.ID # Nil
    THEN [st EXCEPT !.toolCalls = Append(@, ToolCall(d.ID[1], "", "")),
                    !.startedBy = Append(@, d.Index),
                    !.events = Append(@, ToolEvent(EventToolUseStart, ToolCall(d.ID[1], "", "")))]
    ELSE st

\* infineon.go:345-362  a delta whose index is within the list's bounds
updateToolCall(st, d) ==
    IF d.Index >= 0 /\ d.Index < Len(st.toolCalls)
    THEN LET k == d.Index + 1
             named == IF d.Name # Nil
                      THEN [st EXCEPT !.toolCalls[k].Name = d.Name[1],
                                      !.applied = @ \cup {<<d.Index, k>>}]
                      ELSE st
         IN  IF d.Arguments # Nil
             THEN [named EXCEPT
                     !.toolCalls[k].Input = @ \o d.Arguments[1],
                     !.applied = @ \cup {<<d.Index, k>>},
                     !.events = Append(@, ToolEvent(EventToolUseDelta,
                                    ToolCall(named.toolCalls[k].ID, named.toolCalls[k].Name,
                                             d.Arguments[1])))]
             ELSE named
    ELSE st

\* infineon.go:328-363  the range loop over choice.Delta.ToolCalls
RECURSIVE applyDeltas(_, _)
applyDeltas(st, deltas) ==
    IF deltas = <<>> THEN st
    ELSE applyDeltas(updateToolCall(startToolCall(st, Head(deltas)), Head(deltas)),
                     Tail(deltas))

\* infineon.go:318-324
applyContentAccumulated(st, choice) ==
    IF choice.Content # Nil
    THEN [st EXCEPT !.content = @ \o choice.Content[1],
                    !.events = Append(@, ProviderEvent(EventContentDelta,
                                                       st.content \o choice.Content[1],
                                                       Nil, Nil, Nil))]
    ELSE st
applyContent(st, choice) ==
    IF choice.Content # Nil
    THEN [st EXCEPT !.content = @ \o choice.Content[1],
                    !.events = Append(@, ProviderEvent(EventContentDelta, choice.Content[1],
                                                       Nil, Nil, Nil))]
    ELSE st

\* infineon.go:366-368
applyFinishReason(st, choice) ==
    IF choice.FinishReason # ""
    THEN [st EXCEPT !.finishReason = finishReason(choice.FinishReason)]
    ELSE st

\* infineon.go:311-368
handleChunk(st, chunk) ==
    IF Len(chunk.Choices) = 0 THEN st
    ELSE LET choice == chunk.Choices[1] IN
         applyFinishReason(applyDeltas(applyContent(st, choice), choice.ToolCalls), choice)

(***************************************************************************)
(* The non-streaming response (infineon.go:221-236, 430-451).              *)
(***************************************************************************)
RECURSIVE toolCallsOf(_)
toolCallsOf(calls) ==
    IF calls = <<>> THEN <<>>
    ELSE <<ToolCall(Head(calls).ID, Head(calls).Name, Head(calls).Arguments)>>
         \o toolCallsOf(Tail(calls))

sendResult(completion) ==
    IF Len(completion.Choices) = 0
    THEN [resp |-> Nil, err |-> Some(PlainError("no choices returned"))]
    ELSE LET choice == completion.Choices[1] IN
         [resp |-> Some(ProviderResponse(
                       IF choice.Content # Nil THEN choice.Content[1] ELSE "",
                       toolCallsOf(choice.ToolCalls), TokenUsage(0, 0),
                       finishReason(choice.FinishReason))),
          err |-> Nil]

(***************************************************************************)
(* The conversation handed to the provider.  The packages message and      *)
(* tools are not among the sources: a message is a role and an ordered     *)
(* list of content parts (text, binary, tool call, tool result), a tool is *)
(* a descriptor with a name, a description and a JSON schema.              *)
(***************************************************************************)
MaxMessages == 2
MaxTools == 2

User == "user"
Assistant == "assistant"
Tool == "tool"

Part(kind, value) == [Kind |-> kind, Value |-> value]
TextContent(text) == Part("TextContent", [Text |-> text])
BinaryContent(mime, data) == Part("BinaryContent", [MIMEType |-> mime, Data |-> data])
ToolCallPart(id, name, input) == Part("ToolCall", ToolCall(id, name, input))
ToolResult(callID, content) == Part("ToolResult", [CallID |-> callID, Content |-> content])
Message(role, parts) == [Role |-> role, Parts |-> parts]

RECURSIVE PartsOfKind(_, _)
PartsOfKind(parts, kind) ==
    IF parts = <<>> THEN <<>>
    ELSE (IF Head(parts).Kind = kind THEN <<Head(parts).Value>> ELSE <<>>)
         \o PartsOfKind(Tail(parts), kind)

\* msg.Content(): the first text part, or the zero TextContent
Content(msg) ==
    LET texts == PartsOfKind(msg.Parts, "TextContent")
    IN  IF texts = <<>> THEN [Text |-> ""] ELSE texts[1]
BinaryContents(msg) == PartsOfKind(msg.Parts, "BinaryContent")
ToolCalls(msg) == PartsOfKind(msg.Parts, "ToolCall")
ToolResults(msg) == PartsOfKind(msg.Parts, "ToolResult")

\* base64 of the attachment payloads used below
base64(data) == CASE data = "hi" -> "aGk=" [] OTHER -> ""
\* binaryContent.String(provider): the attachment as a data URL
BinaryString(binaryContent) ==
    "data:" \o binaryContent.MIMEType \o ";base64," \o base64(binaryContent.Data)

\* tools.BaseTool: JSONSchema() returns the schema or an error
BaseTool(name, description, schema, err) ==
    [Name |-> name, Description |-> description, JSONSchema |-> [schema |-> schema, err |-> err]]

\* The messages and the tools a caller may pass.
InputMessages ==
    { Message(User, <<TextContent("hi")>>),
      Message(User, <<TextContent("see"), BinaryContent("image/png", "hi")>>),
      Message(User, <<>>),
      Message(Assistant, <<TextContent("ok")>>),
      Message(Assistant, <<ToolCallPart("a", "ls", "{}"), ToolCallPart("b", "rm", "{\"q\"")>>),
      Message(Assistant, <<TextContent("run"), ToolCallPart("b", "rm", ""),
                           ToolCallPart("c", "cat", "{ \"q\": 1 }")>>),
      Message(Tool, <<ToolResult("a", "out"), ToolResult("c", "txt")>>),
      Message(Tool, <<ToolResult("b", "")>>) }

InputTools ==
    { BaseTool("ls", "list files", Some("{\"type\":\"object\"}"), Nil),
      BaseTool("cat", "print a file", Some("{\"type\":\"object\"}"), Nil),
      BaseTool("rm", "remove a file", Nil, Some("schema: unsupported type")) }

SeqsUpTo(S, n) == UNION {[1..k -> S] : k \in 0..n}

(***************************************************************************)
(* encoding/json as convertMessages uses it: Unmarshal into a map (here a  *)
(* set of <<key, value>> pairs) and Marshal of that map, which writes the  *)
(* canonical text without insignificant white space.                       *)
(***************************************************************************)
jsonUnmarshal(text) ==
    CASE text = "{}" -> [args |-> {}, err |-> Nil]
      [] text = "{ \"q\": 1 }" -> [args |-> {<<"q", "1">>}, err |-> Nil]
      [] OTHER -> [args |-> {}, err |-> Some("unexpected end of JSON input")]

jsonMarshal(args) ==
    CASE args = {} -> "{}"
      [] args = {<<"q", "1">>} -> "{\"q\":1}"

(***************************************************************************)
(* convertMessages, convertTools, preparedParams (infineon.go:67-191).     *)
(***************************************************************************)
SystemMessage(text) == [Role |-> "system", Content |-> text]
UserMessage(content) == [Role |-> "user", Content |-> content]
TextParam(text) == [Type |-> "text", Text |-> text]
ImageParam(url) == [Type |-> "image_url", URL |-> url]
ToolCallParam(id, name, arguments) ==
    [ID |-> id, Type |-> "function", Function |-> [Name |-> name, Arguments |-> arguments]]
ZeroToolCallParam == [ID |-> "", Type |-> "", Function |-> [Name |-> "", Arguments |-> ""]]
AssistantMessage(content, toolCalls) ==
    [Role |-> "assistant", Content |-> content, ToolCalls |-> toolCalls]
ToolMessage(content, toolCallID) ==
    [Role |-> "tool", Content |-> content, ToolCallID |-> toolCallID]

\* infineon.go:73-84
convertUser(msg) ==
    LET binary == BinaryContents(msg)
    IN  <<UserMessage(<<TextParam(Content(msg).Text)>>
                      \o [k \in DOMAIN binary |-> ImageParam(BinaryString(binary[k]))])>>

\* infineon.go:97-120  the array has one slot per tool call; a slot is
\* filled only when the input parses
convertToolCalls(calls) ==
    [k \in DOMAIN calls |->
        LET parsed == jsonUnmarshal(calls[k].Input)
        IN  IF parsed.err # Nil THEN ZeroToolCallParam
            ELSE ToolCallParam(calls[k].ID, calls[k].Name, jsonMarshal(parsed.args))]

\* infineon.go:86-122
convertAssistant(msg) ==
    <<AssistantMessage(IF Content(msg).Text # "" THEN Some(Content(msg).Text) ELSE Nil,
                       convertToolCalls(ToolCalls(msg)))>>

\* infineon.go:124-132
convertToolResults(msg) ==
    LET results == ToolResults(msg)
    IN  [k \in DOMAIN results |-> ToolMessage(results[k].Content, results[k].CallID)]

RECURSIVE convertEach(_)
convertEach(messages) ==
    IF messages = <<>> THEN <<>>
    ELSE LET msg == Head(messages)
         IN  (CASE msg.Role = User -> convertUser(msg)
                [] msg.Role = Assistant -> convertAssistant(msg)
                [] msg.Role = Tool -> convertToolResults(msg)
                [] OTHER -> <<>>)
             \o convertEach(Tail(messages))

convertMessages(systemMessage, messages) ==
    <<SystemMessage(systemMessage)>> \o convertEach(messages)

ToolParam(name, description, parameters) ==
    [Type |-> "function",
     Function |-> [Name |-> name, Description |-> description, Parameters |-> parameters]]
ZeroToolParam ==
    [Type |-> "", Function |-> [Name |-> "", Description |-> Nil, Parameters |-> Nil]]

\* infineon.go:136-159  one slot per tool, filled only when JSONSchema succeeds
convertTools(tools) ==
    [k \in DOMAIN tools |->
        IF tools[k].JSONSchema.err # Nil THEN ZeroToolParam
        ELSE ToolParam(tools[k].Name, Some(tools[k].Description), tools[k].JSONSchema.schema)]

\* infineon.go:176-191, 243
preparedParams(options, messages, tools, stream) ==
    [Messages |-> messages,
     Model |-> options.model,
     Tools |-> IF Len(tools) > 0 THEN Some(tools) ELSE Nil,
     MaxTokens |-> IF options.maxTokens > 0 THEN Some(options.maxTokens) ELSE Nil,
     Stream |-> stream]

(***************************************************************************)
(* NewProvider and the provider's entry points (provider.go:83-129).       *)
(***************************************************************************)
ProviderOpenAI == "openai"
ProviderInfineon == "infineon"
ProviderMock == "__mock"
ProviderNames == {ProviderOpenAI, ProviderInfineon, ProviderMock, "anthropic", ""}

providerClientOptions(model, maxTokens, systemMessage) ==
    [model |-> model, maxTokens |-> maxTokens, systemMessage |-> systemMessage]

\* What the ProviderClientOptions of a caller can set up.
ClientOptions ==
    {providerClientOptions("gpt-4o", maxTokens, systemMessage) :
        maxTokens \in {0, 4096}, systemMessage \in {"", "be brief"}}

baseProvider(client, options) == [client |-> client, options |-> options]

\* The ways a call of NewProvider ends: the two results, or a panic.
Returned(provider, err) == [provider |-> provider, err |-> err, panic |-> Nil]
Panicked(value) == [provider |-> Nil, err |-> Nil, panic |-> Some(value)]
NotCalled == [provider |-> Nil, err |-> Nil, panic |-> Nil]

NewProvider(providerName, clientOptions) ==
    CASE providerName = ProviderOpenAI ->
           Returned(Some(baseProvider("openai", clientOptions)), Nil)
      [] providerName = ProviderInfineon ->
           Returned(Some(baseProvider("infineon", clientOptions)), Nil)
      [] providerName = ProviderMock -> Panicked("not implemented")
      [] OTHER -> Returned(Nil, Some("provider not supported: " \o providerName))

\* provider.go:106-115
HasParts(msg) == Len(msg.Parts) # 0
cleanMessagesKeepsAll(messages) == messages
cleanMessages(messages) == SelectSeq(messages, HasParts)

\* infineon.go:193-196, 239-243  the request send and stream build
clientParams(options, messages, tools, stream) ==
    preparedParams(options, convertMessages(options.systemMessage, messages),
                   convertTools(tools), stream)

(***************************************************************************)
(* State.                                                                  *)
(***************************************************************************)
VARIABLES
    op,            \* the operation invoked: "send" or "stream"
    pc,            \* where the caller (send) or the goroutine (stream) is
    attempts,      \* the retry loop's counter
    calls,         \* backend calls made (CreateChatCompletion[Stream])
    decision,      \* latest shouldRetry call of the retry loop
    result,        \* what send returned: [resp, err]
    events,        \* events the consumer has received from eventChan
    chanClosed,    \* eventChan is closed
    handle,        \* the backend stream: "none", "open", "closed"
    content,       \* stream's local content
    toolCalls,     \* stream's local toolCalls
    streamFinish,  \* stream's local finishReason
    recvd,         \* chunks stream.Recv has returned so far
    recvErr,       \* the error stream.Recv failed with, if it did
    stopIdx,       \* position of the ToolUseStop loop in toolCalls
    streamCloses,  \* number of stream.Close() calls
    cancelledAt,   \* -1, or the number of events received when ctx was cancelled
    receiving,     \* the consumer still receives from eventChan
    rangeVarPerIteration, \* the build gives every iteration of a range loop its own variable
    loopToolCall,  \* the variable toolCall of the ToolUseStop loop, when it is one variable
    startedBy,     \* for each tool call of toolCalls, the delta index that started it
    applied,       \* <<delta index, position in toolCalls>> of the fragments applied
    providerName,  \* the identifier NewProvider was called with
    newProvider,   \* how the call of NewProvider ended
    messages,      \* the messages passed to SendMessages or StreamResponse
    tools,         \* the tools passed with them
    params         \* the request send or stream prepared

vars == <<op, pc, attempts, calls, decision, result, events, chanClosed, handle,
          content, toolCalls, streamFinish, recvd, recvErr, stopIdx, streamCloses,
          cancelledAt, receiving, rangeVarPerIteration, loopToolCall, startedBy, applied,
          providerName, newProvider, messages, tools, params>>

consumer == <<cancelledAt, receiving>>
loop == <<rangeVarPerIteration, loopToolCall>>
request == <<providerName, newProvider, messages, tools, params>>
invocation == <<attempts, calls, decision, result, events, chanClosed, handle, content,
                toolCalls, streamFinish, recvd, recvErr, stopIdx, streamCloses, startedBy,
                applied>>

\* Options of a provider with a model, a token limit and a system prompt.
DefaultOptions == providerClientOptions("gpt-4o", 4096, "be brief")

locals == <<content, toolCalls, streamFinish, startedBy, applied>>

NoResult == [resp |-> Nil, err |-> Nil]

\* No call of the backend has been made yet.
Fresh ==
    /\ attempts = 0
    /\ calls = 0
    /\ decision = NoDecision
    /\ result = NoResult
    /\ events = <<>>
    /\ chanClosed = FALSE
    /\ handle = "none"
    /\ content = ""
    /\ toolCalls = <<>>
    /\ streamFinish = ZeroFinishReason
    /\ recvd = <<>>
    /\ recvErr = Nil
    /\ stopIdx = 1
    /\ streamCloses = 0
    /\ cancelledAt = 0 - 1
    /\ receiving = TRUE
    /\ startedBy = <<>>
    /\ applied = {}
    /\ rangeVarPerIteration \in BOOLEAN
    /\ loopToolCall = Nil

\* send or stream of an Infineon provider has prepared its request.
Init ==
    /\ op \in {"send", "stream"}
    /\ pc = "retry"
    /\ Fresh
    /\ providerName = ProviderInfineon
    /\ newProvider = NewProvider(ProviderInfineon, DefaultOptions)
    /\ messages = <<>>
    /\ tools = <<>>
    /\ params = Some(clientParams(DefaultOptions, <<>>, <<>>, op = "stream"))

(***************************************************************************)
(* send (infineon.go:193-237).                                             *)
(***************************************************************************)
\* infineon.go:200-203, 221-236  the call succeeds
SendSucceeds ==
    /\ op = "send" /\ pc = "retry" /\ loopCond(attempts)
    /\ \E completion \in Completions : result' = sendResult(completion)
    /\ calls' = calls + 1
    /\ decision' = NoDecision
    /\ pc' = "done"
    /\ UNCHANGED <<loop, request, consumer, streamCloses, op, attempts, events, chanClosed, handle, locals, recvd, recvErr, stopIdx>>

\* infineon.go:200-219  the call fails
SendFails ==
    /\ op = "send" /\ pc = "retry" /\ loopCond(attempts)
    /\ \E err \in BackendErrors :
         LET next == afterFailure(attempts, err) IN
         /\ decision' = Decision(attempts, err)
         /\ attempts' = next.attempts
         /\ IF next.returned # Nil
            THEN result' = [resp |-> Nil, err |-> next.returned] /\ pc' = "done"
            ELSE UNCHANGED <<result, pc>>
    /\ calls' = calls + 1
    /\ UNCHANGED <<loop, request, consumer, streamCloses, op, events, chanClosed, handle, locals, recvd, recvErr, stopIdx>>

(***************************************************************************)
(* stream (infineon.go:239-395): the goroutine.                            *)
(***************************************************************************)
\* infineon.go:254-257, 287  the open succeeds, stream.Close is deferred
StreamOpenSucceeds ==
    /\ op = "stream" /\ pc = "retry" /\ loopCond(attempts)
    /\ calls' = calls + 1
    /\ decision' = NoDecision
    /\ handle' = "open"
    /\ pc' = "start"
    /\ UNCHANGED <<loop, request, consumer, streamCloses, op, attempts, result, events, chanClosed, locals,
                   recvd, recvErr, stopIdx>>

\* infineon.go:289-291
EmitContentStart ==
    /\ pc = "start" /\ receiving
    /\ events' = Append(events, PlainEvent(EventContentStart))
    /\ pc' = "recv"
    /\ UNCHANGED <<loop, request, consumer, streamCloses, op, attempts, calls, decision, result, chanClosed,
                   handle, locals, recvd, recvErr, stopIdx>>

\* infineon.go:254-285  the open fails
StreamOpenFailsNoReturn ==
    /\ op = "stream" /\ pc = "retry" /\ loopCond(attempts)
    /\ \E err \in BackendErrors :
         LET next == afterFailure(attempts, err) IN
         /\ decision' = Decision(attempts, err)
         /\ attempts' = next.attempts
         /\ IF next.returned # Nil
            THEN /\ events' = events \o <<ErrorEvent(next.returned[1]),
                                          PlainEvent(EventContentStart)>>
                 /\ pc' = "recv"
            ELSE UNCHANGED <<events, pc>>
    /\ calls' = calls + 1
    /\ UNCHANGED <<loop, request, consumer, streamCloses, op, result, chanClosed, handle, locals, recvd, recvErr, stopIdx>>
StreamOpenFails ==
    /\ op = "stream" /\ pc = "retry" /\ loopCond(attempts)
    /\ \E err \in BackendErrors :
         LET next == afterFailure(attempts, err) IN
         /\ next.returned = Nil \/ receiving
         /\ decision' = Decision(attempts, err)
         /\ attempts' = next.attempts
         /\ IF next.returned # Nil
            THEN events' = Append(events, ErrorEvent(next.returned[1])) /\ pc' = "return"
            ELSE UNCHANGED <<events, pc>>
    /\ calls' = calls + 1
    /\ UNCHANGED <<loop, request, consumer, streamCloses, op, result, chanClosed, handle, locals, recvd, recvErr, stopIdx>>

\* infineon.go:299-369  Recv returns a chunk
RecvChunk ==
    /\ pc = "recv" /\ Len(recvd) < MaxChunks
    /\ \E chunk \in Chunks :
         LET st == handleChunk([content |-> content, toolCalls |-> toolCalls,
                                finishReason |-> streamFinish, events |-> events,
                                startedBy |-> startedBy, applied |-> applied], chunk)
         IN  /\ st.events = events \/ receiving
             /\ startedBy' = st.startedBy
             /\ applied' = st.applied
             /\ content' = st.content
             /\ toolCalls' = st.toolCalls
             /\ streamFinish' = st.finishReason
             /\ events' = st.events
             /\ recvd' = Append(recvd, chunk)
    /\ UNCHANGED <<loop, request, consumer, streamCloses, op, pc, attempts, calls, decision, result, chanClosed, handle, recvErr,
                   stopIdx>>

\* infineon.go:299-302  Recv returns io.EOF
RecvEOF ==
    /\ pc = "recv"
    /\ pc' = "stops"
    /\ UNCHANGED <<loop, request, consumer, streamCloses, op, attempts, calls, decision, result, events, chanClosed, handle, locals,
                   recvd, recvErr, stopIdx>>

\* infineon.go:299-309  Recv fails
RecvErrorSilent ==
    /\ pc = "recv"
    /\ \E err \in TransportErrors : recvErr' = Some(err)
    /\ pc' = "return"
    /\ UNCHANGED <<loop, request, consumer, streamCloses, op, attempts, calls, decision, result, events, chanClosed, handle, locals,
                   recvd, stopIdx>>
RecvErrorFlushes ==
    /\ pc = "recv"
    /\ \E err \in TransportErrors :
         /\ recvErr' = Some(err)
         /\ events' = Append(events, ErrorEvent(err))
    /\ pc' = "stops"
    /\ UNCHANGED <<loop, request, consumer, streamCloses, op, attempts, calls, decision, result, chanClosed, handle, locals, recvd,
                   stopIdx>>
RecvError ==
    /\ pc = "recv" /\ receiving
    /\ \E err \in TransportErrors :
         /\ recvErr' = Some(err)
         /\ events' = Append(events, ErrorEvent(err))
    /\ pc' = "return"
    /\ UNCHANGED <<loop, request, consumer, streamCloses, op, attempts, calls, decision, result, chanClosed, handle, locals, recvd,
                   stopIdx>>

\* infineon.go:372-377  one iteration of the ToolUseStop loop
EmitToolUseStopOnce ==
    /\ pc = "stops" /\ stopIdx <= Len(toolCalls)
    /\ loopToolCall' = Some(toolCalls[stopIdx])
    /\ events' = Append(events, ToolEvent(EventToolUseStop, toolCalls[stopIdx]))
    /\ stopIdx' = Len(toolCalls) + 1
    /\ UNCHANGED <<rangeVarPerIteration, request, consumer, streamCloses, op, pc, attempts, calls, decision, result, chanClosed, handle, locals, recvd,
                   recvErr>>
EmitToolUseStopReversed ==
    /\ pc = "stops" /\ stopIdx <= Len(toolCalls)
    /\ loopToolCall' = Some(toolCalls[Len(toolCalls) + 1 - stopIdx])
    /\ events' = Append(events,
                        ToolEvent(EventToolUseStop, toolCalls[Len(toolCalls) + 1 - stopIdx]))
    /\ stopIdx' = stopIdx + 1
    /\ UNCHANGED <<rangeVarPerIteration, request, consumer, streamCloses, op, pc, attempts, calls, decision, result, chanClosed, handle, locals, recvd,
                   recvErr>>
EmitToolUseStop ==
    /\ pc = "stops" /\ stopIdx <= Len(toolCalls) /\ receiving
    /\ loopToolCall' = Some(toolCalls[stopIdx])
    /\ events' = Append(events, ToolEvent(EventToolUseStop, toolCalls[stopIdx]))
    /\ stopIdx' = stopIdx + 1
    /\ UNCHANGED <<rangeVarPerIteration, request, consumer, streamCloses, op, pc, attempts, calls, decision, result, chanClosed, handle, locals, recvd,
                   recvErr>>

\* infineon.go:379-381
EmitContentStop ==
    /\ pc = "stops" /\ stopIdx > Len(toolCalls) /\ receiving
    /\ events' = Append(events, PlainEvent(EventContentStop))
    /\ pc' = "complete"
    /\ UNCHANGED <<loop, request, consumer, streamCloses, op, attempts, calls, decision, result, chanClosed, handle, locals, recvd,
                   recvErr, stopIdx>>

\* infineon.go:383-391
EmitComplete ==
    /\ pc = "complete" /\ receiving
    /\ events' = Append(events,
                        ProviderEvent(EventComplete, "", Nil,
                                      Some(ProviderResponse(content, toolCalls, TokenUsage(0, 0),
                                                            streamFinish)),
                                      Nil))
    /\ pc' = "return"
    /\ UNCHANGED <<loop, request, consumer, streamCloses, op, attempts, calls, decision, result, chanClosed, handle, locals, recvd,
                   recvErr, stopIdx>>

\* infineon.go:287  defer stream.Close(), run first at return
DeferredStreamClose ==
    /\ pc = "return" /\ handle = "open"
    /\ handle' = "closed"
    /\ streamCloses' = streamCloses + 1
    /\ UNCHANGED <<loop, request, consumer, op, pc, attempts, calls, decision, result, events, chanClosed, locals, recvd,
                   recvErr, stopIdx>>

\* infineon.go:248  defer close(eventChan), run last at return
DeferredCloseChanFirst ==
    /\ pc = "return" /\ ~chanClosed
    /\ chanClosed' = TRUE
    /\ pc' = IF handle = "open" THEN "return" ELSE "done"
    /\ UNCHANGED <<loop, request, consumer, streamCloses, op, attempts, calls, decision, result, events, handle,
                   locals, recvd, recvErr, stopIdx>>
DeferredCloseChan ==
    /\ pc = "return" /\ handle # "open"
    /\ chanClosed' = TRUE
    /\ pc' = "done"
    /\ UNCHANGED <<loop, request, consumer, streamCloses, op, attempts, calls, decision, result, events, handle, locals, recvd,
                   recvErr, stopIdx>>

Next ==
    \/ SendSucceeds
    \/ SendFails
    \/ StreamOpenSucceeds
    \/ EmitContentStart
    \/ StreamOpenFails
    \/ RecvChunk
    \/ RecvEOF
    \/ RecvError
    \/ EmitToolUseStop
    \/ EmitContentStop
    \/ EmitComplete
    \/ DeferredStreamClose
    \/ DeferredCloseChan

Spec == Init /\ [][Next]_vars

(***************************************************************************)
(* The caller's side of stream: the context it passed (infineon.go:239)    *)
(* and its receive loop on the returned channel (infineon.go:394).         *)
(***************************************************************************)
\* infineon.go:239  the caller cancels ctx while the goroutine runs
Cancel ==
    /\ op = "stream" /\ ~chanClosed /\ cancelledAt < 0
    /\ cancelledAt' = Len(events)
    /\ UNCHANGED <<loop, request, receiving, streamCloses, op, pc, attempts, calls, decision, result, events,
                   chanClosed, handle, locals, recvd, recvErr, stopIdx>>

\* infineon.go:245, 394  after the cancellation the caller stops receiving
ConsumerStops ==
    /\ op = "stream" /\ ~chanClosed /\ cancelledAt >= 0 /\ receiving
    /\ receiving' = FALSE
    /\ UNCHANGED <<loop, request, cancelledAt, streamCloses, op, pc, attempts, calls, decision, result, events,
                   chanClosed, handle, locals, recvd, recvErr, stopIdx>>

NextCancel ==
    \/ Next
    \/ Cancel
    \/ ConsumerStops

SpecCancel == Init /\ [][NextCancel]_vars

(***************************************************************************)
(* Construction of a provider and the hand-over of a conversation to its   *)
(* client, up to the prepared request; the retry loop that follows is the  *)
(* one of Spec.                                                            *)
(***************************************************************************)
InitProvider ==
    /\ op = "none"
    /\ pc = "new"
    /\ Fresh
    /\ providerName = ""
    /\ newProvider = NotCalled
    /\ messages = <<>>
    /\ tools = <<>>
    /\ params = Nil

\* provider.go:83-104
CallNewProvider ==
    /\ pc = "new"
    /\ \E name \in ProviderNames, clientOptions \in ClientOptions :
         /\ providerName' = name
         /\ newProvider' = NewProvider(name, clientOptions)
         /\ pc' = IF newProvider'.provider # Nil THEN "ready" ELSE "done"
    /\ UNCHANGED <<op, messages, tools, params, invocation, consumer, loop>>

\* provider.go:117-120 with infineon.go:193-196
SendMessages ==
    /\ pc = "ready" /\ newProvider.provider[1].client = "infineon"
    /\ \E msgs \in SeqsUpTo(InputMessages, MaxMessages), ts \in SeqsUpTo(InputTools, MaxTools) :
         /\ messages' = msgs
         /\ tools' = ts
         /\ params' = Some(clientParams(newProvider.provider[1].options,
                                        cleanMessages(msgs), ts, FALSE))
    /\ op' = "send"
    /\ pc' = "retry"
    /\ UNCHANGED <<providerName, newProvider, invocation, consumer, loop>>

\* provider.go:126-129 with infineon.go:239-243
StreamResponse ==
    /\ pc = "ready" /\ newProvider.provider[1].client = "infineon"
    /\ \E msgs \in SeqsUpTo(InputMessages, MaxMessages), ts \in SeqsUpTo(InputTools, MaxTools) :
         /\ messages' = msgs
         /\ tools' = ts
         /\ params' = Some(clientParams(newProvider.provider[1].options,
                                        cleanMessages(msgs), ts, TRUE))
    /\ op' = "stream"
    /\ pc' = "retry"
    /\ UNCHANGED <<providerName, newProvider, invocation, consumer, loop>>

NextProvider ==
    \/ CallNewProvider
    \/ SendMessages
    \/ StreamResponse

SpecProvider == InitProvider /\ [][NextProvider]_vars

(***************************************************************************)
(* Vocabulary of the properties.                                           *)
(***************************************************************************)
Positions(type) == {i \in DOMAIN events : events[i].Type = type}

TerminalsAfter(s) ==
    {i \in DOMAIN events : i > s /\ events[i].Type \in {EventComplete, EventError}}

RECURSIVE EventsOfType(_, _)
EventsOfType(evs, type) ==
    IF evs = <<>> THEN <<>>
    ELSE (IF Head(evs).Type = type THEN <<Head(evs)>> ELSE <<>>)
         \o EventsOfType(Tail(evs), type)

CallOf(ev) == ev.ToolCall[1]
CallsOf(evs) == [i \in DOMAIN evs |-> CallOf(evs[i])]
IDsOf(evs) == [i \in DOMAIN evs |-> CallOf(evs[i]).ID]

Starts == EventsOfType(events, EventToolUseStart)
Stops == EventsOfType(events, EventToolUseStop)

IsPrefix(s, t) == Len(s) <= Len(t) /\ s = SubSeq(t, 1, Len(s))

\* The goroutine has nothing left to do.
Terminated == chanClosed \/ ~ENABLED Next

\* The stream was opened and ended with io.EOF, and the goroutine is through.
CleanEnd == chanClosed /\ handle = "closed" /\ recvErr = Nil

\* All tool-call deltas the backend delivered, in arrival order.
RECURSIVE DeltasOf(_)
DeltasOf(chunks) ==
    IF chunks = <<>> THEN <<>>
    ELSE (IF Len(Head(chunks).Choices) = 0 THEN <<>> ELSE Head(chunks).Choices[1].ToolCalls)
         \o DeltasOf(Tail(chunks))

RECURSIVE ConcatArguments(_)
ConcatArguments(deltas) ==
    IF deltas = <<>> THEN ""
    ELSE (IF Head(deltas).Arguments = Nil THEN "" ELSE Head(deltas).Arguments[1])
         \o ConcatArguments(Tail(deltas))

RECURSIVE ConcatNames(_)
ConcatNames(deltas) ==
    IF deltas = <<>> THEN ""
    ELSE (IF Head(deltas).Name = Nil THEN "" ELSE Head(deltas).Name[1])
         \o ConcatNames(Tail(deltas))

\* The deltas received are those of one call: one index, the first has the ID.
OneCallIndex(deltas) ==
    /\ deltas # <<>>
    /\ \A i \in DOMAIN deltas : deltas[i].Index = deltas[1].Index
    /\ deltas[1].ID # Nil

\* The raw finish reasons of the chunks that had a non-empty one, in order.
RECURSIVE RawFinishReasons(_)
RawFinishReasons(chunks) ==
    IF chunks = <<>> THEN <<>>
    ELSE (IF Len(Head(chunks).Choices) = 0 \/ Head(chunks).Choices[1].FinishReason = ""
          THEN <<>> ELSE <<Head(chunks).Choices[1].FinishReason>>)
         \o RawFinishReasons(Tail(chunks))

Last(s) == s[Len(s)]

IsServerError(err) ==
    err.API # Nil /\ err.API[1].StatusCode >= 500 /\ err.API[1].StatusCode < 600

IsRateLimit(err) == err.API # Nil /\ err.API[1].StatusCode = 429

\* The error send returned or stream emitted when the retry loop gave up.
Surfaced == IF op = "send" THEN result.err ELSE Last(events).Error

(***************************************************************************)
(* C1: every event sequence that contains ContentStart has, after it,      *)
(* at most one Complete or Error event at any time, and exactly one once   *)
(* the goroutine is through; and the goroutine is through only with the    *)
(* sequence closed.                                                        *)
(***************************************************************************)
C1_ExactlyOneTerminal ==
    \A s \in Positions(EventContentStart) :
        /\ Cardinality(TerminalsAfter(s)) <= 1
        /\ Terminated => chanClosed /\ Cardinality(TerminalsAfter(s)) = 1

C1_Witness ==
    /\ chanClosed /\ Len(recvd) = MaxChunks /\ toolCalls # <<>>
    /\ events[1].Type = EventContentStart
    /\ Last(events).Type = EventError

(***************************************************************************)
(* C2 (as claimed): when all tool-call deltas of a stream carry the same   *)
(* index (0 or more) and the first carries the ID, the one tool call       *)
(* reported in ToolUseStop and in Complete has as input the concatenation  *)
(* of all arguments fragments in arrival order.                            *)
(***************************************************************************)
C2_InputIsConcatenation ==
    (CleanEnd /\ OneCallIndex(DeltasOf(recvd)) /\ DeltasOf(recvd)[1].Index >= 0) =>
        /\ Len(Stops) = 1
        /\ CallOf(Stops[1]).Input = ConcatArguments(DeltasOf(recvd))
        /\ Last(events).Response[1].ToolCalls = CallsOf(Stops)

(***************************************************************************)
(* C3 (as claimed): when all tool-call deltas of a stream carry index 0,   *)
(* the first carries the ID and several carry a name fragment, the name    *)
(* of the tool call reported in ToolUseStop and in Complete is the         *)
(* concatenation of all name fragments in arrival order.                   *)
(***************************************************************************)
C3_NameIsConcatenation ==
    (/\ CleanEnd
     /\ OneCallIndex(DeltasOf(recvd))
     /\ DeltasOf(recvd)[1].Index = 0
     /\ Cardinality({i \in DOMAIN DeltasOf(recvd) : DeltasOf(recvd)[i].Name # Nil}) >= 2) =>
        /\ Len(Stops) = 1
        /\ CallOf(Stops[1]).Name = ConcatNames(DeltasOf(recvd))
        /\ Last(events).Response[1].ToolCalls = CallsOf(Stops)

(***************************************************************************)
(* C4: after a clean end of stream the events are: only ContentStart,      *)
(* ContentDelta, ToolUseStart and ToolUseDelta events, then one            *)
(* ToolUseStop per ToolUseStart, then one ContentStop, then one Complete,  *)
(* last; Complete carries the tool calls of the ToolUseStop events and,    *)
(* when some chunk had a finish reason, the mapping of the last such one.  *)
(***************************************************************************)
C4_CleanEndOfStream ==
    CleanEnd =>
        LET n == Len(events)
            k == Len(Starts)
            raw == RawFinishReasons(recvd)
        IN  /\ n >= k + 3
            /\ events[n].Type = EventComplete
            /\ events[n - 1].Type = EventContentStop
            /\ \A i \in (n - 1 - k)..(n - 2) : events[i].Type = EventToolUseStop
            /\ \A i \in 1..(n - 2 - k) :
                 events[i].Type \in {EventContentStart, EventContentDelta, EventToolUseStart,
                                     EventToolUseDelta}
            /\ events[n].Response[1].ToolCalls = CallsOf(Stops)
            /\ events[n].Response[1].ToolCalls = toolCalls
            /\ raw # <<>> => events[n].Response[1].FinishReason = finishReason(Last(raw))

C4_Witness ==
    /\ CleanEnd
    /\ Len(Starts) = 1
    /\ Len(RawFinishReasons(recvd)) = 2
    /\ RawFinishReasons(recvd)[1] # RawFinishReasons(recvd)[2]

(***************************************************************************)
(* C5: the ToolUseStop events name the tool calls in the order of their    *)
(* ToolUseStart events, at any time, and after a clean end of stream       *)
(* there is one ToolUseStop for each ToolUseStart.                         *)
(***************************************************************************)
C5_StopOrderIsStartOrder ==
    /\ IsPrefix(IDsOf(Stops), IDsOf(Starts))
    /\ CleanEnd => IDsOf(Stops) = IDsOf(Starts)

C5_Witness ==
    /\ CleanEnd
    /\ Len(Starts) = 3
    /\ IDsOf(Stops)[1] # IDsOf(Stops)[2]

(***************************************************************************)
(* C6: once a Recv has failed, the events end with the one Error event,    *)
(* carrying that error; there is no ToolUseStop, ContentStop or Complete;  *)
(* the goroutine only returns, and no backend call is made beyond the one  *)
(* that opened the stream.                                                 *)
(***************************************************************************)
C6_RecvErrorEndsStream ==
    recvErr # Nil =>
        /\ Last(events) = ErrorEvent(recvErr[1])
        /\ Cardinality(Positions(EventError)) = 1
        /\ Positions(EventToolUseStop) = {}
        /\ Positions(EventContentStop) = {}
        /\ Positions(EventComplete) = {}
        /\ events[1].Type = EventContentStart
        /\ pc \in {"return", "done"}
        /\ calls = attempts + 1

C6_Witness ==
    /\ recvErr # Nil /\ chanClosed
    /\ content # "" /\ toolCalls # <<>>
    /\ attempts > 0

(***************************************************************************)
(* C7: when the stream could not be opened, the events are exactly one     *)
(* Error event, the sequence is then closed, and ContentStart is never     *)
(* among the events of a stream that was not opened.                       *)
(***************************************************************************)
C7_OpenFailureIsSingleError ==
    (op = "stream" /\ handle = "none") =>
        /\ Positions(EventContentStart) = {}
        /\ pc \in {"retry", "return", "done"}
        /\ pc = "retry" => events = <<>> /\ ~chanClosed
        /\ pc \in {"return", "done"} =>
             /\ Len(events) = 1 /\ events[1].Type = EventError
             /\ events[1].Error # Nil
             /\ chanClosed <=> pc = "done"
             /\ pc = "return" => ENABLED DeferredCloseChan

C7_Witness ==
    /\ op = "stream" /\ handle = "none" /\ chanClosed
    /\ decision.called /\ decision.attempts > 0 /\ decision.res.fatal = Nil

(***************************************************************************)
(* C8: for a 5xx API error shouldRetry says retry, with delay              *)
(* 1000 * 2^attempts and no fatal error, while attempts < maxRetries - 1,  *)
(* and the loop goes on; at attempts = maxRetries - 1 it says no retry     *)
(* with a fatal error that wraps the original one, and that fatal error,   *)
(* not the original, is what send returns and stream emits.                *)
(***************************************************************************)
C8_ServerErrorRetry ==
    (decision.called /\ IsServerError(decision.err[1])) =>
        IF decision.attempts < maxRetries - 1
        THEN /\ decision.res = [retry |-> TRUE, delay |-> 1000 * (2 ^ decision.attempts),
                                fatal |-> Nil]
             /\ pc = "retry" /\ attempts = decision.attempts + 1
             /\ result = NoResult /\ events = <<>>
        ELSE /\ decision.attempts = maxRetries - 1
             /\ ~decision.res.retry
             /\ decision.res.fatal # Nil
             /\ decision.res.fatal[1].Unwrap = decision.err
             /\ decision.res.fatal # decision.err
             /\ pc \in {"return", "done"}
             /\ Surfaced = decision.res.fatal
             /\ op = "send" => result.resp = Nil
             /\ op = "stream" => Len(events) = 1

C8_Witness ==
    /\ decision.called /\ IsServerError(decision.err[1])
    /\ decision.attempts = maxRetries - 1
    /\ op = "send" /\ pc = "done"

(***************************************************************************)
(* C9: for a 429 API error shouldRetry says retry, with no fatal error,    *)
(* at every attempts; the delay is the Retry-After header's seconds in     *)
(* milliseconds when the header holds a duration, whatever attempts is,    *)
(* and 1000 * 2^attempts otherwise.                                        *)
(***************************************************************************)
C9_RateLimitRetry ==
    (decision.called /\ IsRateLimit(decision.err[1])) =>
        /\ decision.res.retry
        /\ decision.res.fatal = Nil
        /\ decision.res.delay =
             IF decision.err[1].API[1].RetryAfter = "2" THEN 2000
             ELSE 1000 * (2 ^ decision.attempts)
        /\ (decision.err[1].API[1].RetryAfter = "" /\ decision.attempts = 0) =>
             decision.res.delay = 1000
        /\ (decision.err[1].API[1].RetryAfter = "" /\ decision.attempts = 3) =>
             decision.res.delay = 8000

C9_Witness ==
    /\ decision.called /\ IsRateLimit(decision.err[1])
    /\ decision.err[1].API[1].RetryAfter = "2"
    /\ decision.attempts = maxRetries - 1
    /\ decision.res.delay = 2000

(***************************************************************************)
(* C10 (as claimed): no more than maxRetries backend calls are made, and   *)
(* when maxRetries calls have failed the error of the last call is what    *)
(* send returns and what stream emits as its single Error event.           *)
(***************************************************************************)
C10_LastErrorSurfaced ==
    /\ calls <= maxRetries
    /\ (calls = maxRetries /\ decision.called) =>
         /\ pc \in {"return", "done"}
         /\ Surfaced = decision.err
         /\ op = "stream" => Len(events) = 1

(***************************************************************************)
(* C10 (amended): no more than maxRetries backend calls are made, and      *)
(* when maxRetries calls have failed, send returns and stream emits as     *)
(* its single Error event the error of the last call, or, when that error  *)
(* is a 5xx API error, the "max retries reached" error that wraps it.      *)
(***************************************************************************)
C10_AttemptsCapped ==
    /\ calls <= maxRetries
    /\ attempts <= maxRetries
    /\ (calls = maxRetries /\ decision.called) =>
         /\ pc \in {"return", "done"}
         /\ Surfaced = IF IsServerError(decision.err[1])
                       THEN Some(MaxRetriesError(decision.err[1]))
                       ELSE decision.err
         /\ op = "send" => result.resp = Nil
         /\ op = "stream" => Len(events) = 1 /\ events[1].Type = EventError

C10_Witness ==
    /\ calls = maxRetries /\ attempts = maxRetries
    /\ decision.called /\ IsRateLimit(decision.err[1])
    /\ op = "stream" /\ chanClosed


(***************************************************************************)
(* C11: for an error that is no API error, or an API error whose status    *)
(* is neither 429 nor in 500..599, shouldRetry says no retry, delay 0 and  *)
(* no fatal error at every attempts; send then returns that very error     *)
(* and stream emits it, and the failed call is the last backend call:      *)
(* attempts is not incremented and no further call is made.                *)
(***************************************************************************)
C11_NotRetryable ==
    (decision.called /\ ~IsRateLimit(decision.err[1]) /\ ~IsServerError(decision.err[1])) =>
        /\ decision.res = [retry |-> FALSE, delay |-> 0, fatal |-> Nil]
        /\ pc \in {"return", "done"}
        /\ Surfaced = decision.err
        /\ attempts = decision.attempts
        /\ calls = decision.attempts + 1
        /\ op = "send" => pc = "done" /\ result.resp = Nil
        /\ op = "stream" => Len(events) = 1

C11_Witness ==
    /\ op = "send" /\ pc = "done" /\ calls = 1
    /\ decision.called /\ decision.err[1].API # Nil
    /\ decision.err[1].API[1].StatusCode = 600
    /\ result.err = decision.err


(***************************************************************************)
(* C12: once the caller has cancelled, the goroutine ends with the handle  *)
(* released and the channel closed, whatever the consumer does, and no     *)
(* Complete event is handed over after the cancellation.                   *)
(***************************************************************************)
C12_CancelTerminates ==
    cancelledAt >= 0 =>
        /\ ENABLED NextCancel \/ (chanClosed /\ handle # "open")
        /\ \A i \in DOMAIN events : i > cancelledAt => events[i].Type # EventComplete

(***************************************************************************)
(* C13: after a successful open the handle is closed exactly once, on      *)
(* every way out of the goroutine, and before the channel is closed; when  *)
(* no open succeeds it is never closed.                                    *)
(***************************************************************************)
C13_HandleClosedOnce ==
    /\ streamCloses <= 1
    /\ handle = "none" => streamCloses = 0
    /\ handle = "open" => streamCloses = 0 /\ ~chanClosed
    /\ handle = "closed" => streamCloses = 1
    /\ (op = "stream" /\ Terminated) => chanClosed /\ handle # "open"

C13_Witness ==
    /\ chanClosed /\ handle = "closed" /\ streamCloses = 1
    /\ recvErr # Nil /\ Len(recvd) = MaxChunks


(***************************************************************************)
(* Vocabulary of the properties of the prepared request.                   *)
(***************************************************************************)
WireMessages == params[1].Messages
WireTools == IF params[1].Tools = Nil THEN <<>> ELSE params[1].Tools[1]

IsAssistantEntry(entry) == entry.Role = "assistant"
IsAssistantMessage(msg) == msg.Role = Assistant /\ Len(msg.Parts) > 0
Parses(call) == jsonUnmarshal(call.Input).err = Nil
SchemaExtracted(tool) == tool.JSONSchema.err = Nil

\* Role and distinguishing text of a wire entry.
EntryKey(entry) ==
    CASE entry.Role = "user" -> <<"user", entry.Content[1].Text>>
      [] entry.Role = "assistant" ->
           <<"assistant", IF entry.Content = Nil THEN "" ELSE entry.Content[1]>>
      [] entry.Role = "tool" -> <<"tool", entry.ToolCallID>>
      [] OTHER -> <<entry.Role, entry.Content>>

\* The entries the input messages stand for, in input order.
RECURSIVE ExpectedKeys(_)
ExpectedKeys(msgs) ==
    IF msgs = <<>> THEN <<>>
    ELSE LET msg == Head(msgs)
             results == ToolResults(msg)
         IN  (CASE Len(msg.Parts) = 0 -> <<>>
                [] Len(msg.Parts) > 0 /\ msg.Role = Tool ->
                     [k \in DOMAIN results |-> <<"tool", results[k].CallID>>]
                [] OTHER -> <<<<msg.Role, Content(msg).Text>>>>)
             \o ExpectedKeys(Tail(msgs))

(***************************************************************************)
(* C14: the tool-call array of an Assistant wire message has exactly one   *)
(* record per tool call whose input parses, in the original order.         *)
(***************************************************************************)
C14_UnparseableCallsDropped ==
    params # Nil =>
        LET entries == SelectSeq(WireMessages, IsAssistantEntry)
            msgs == SelectSeq(messages, IsAssistantMessage)
        IN  /\ Len(entries) = Len(msgs)
            /\ \A k \in DOMAIN entries :
                 LET parseable == SelectSeq(ToolCalls(msgs[k]), Parses)
                 IN  /\ Len(entries[k].ToolCalls) = Len(parseable)
                     /\ \A j \in DOMAIN parseable :
                          entries[k].ToolCalls[j].ID = parseable[j].ID

(***************************************************************************)
(* C15: the tool declarations of the request are exactly the tools whose   *)
(* schema was extracted, in the original order.                            *)
(***************************************************************************)
C15_FailedToolsDropped ==
    params # Nil =>
        LET extracted == SelectSeq(tools, SchemaExtracted)
        IN  /\ Len(WireTools) = Len(extracted)
            /\ \A k \in DOMAIN extracted : WireTools[k].Function.Name = extracted[k].Name

(***************************************************************************)
(* C16: the wire list is one system message with the configured prompt,    *)
(* followed by the translations of the messages that have parts, in input  *)
(* order: one entry per User or Assistant message, one per ToolResult of a *)
(* Tool message, and nothing for a message without parts.                  *)
(***************************************************************************)
C16_WireMessageList ==
    params # Nil =>
        /\ WireMessages[1] = SystemMessage(newProvider.provider[1].options.systemMessage)
        /\ LET rest == Tail(WireMessages)
           IN  [k \in DOMAIN rest |-> EntryKey(rest[k])] = ExpectedKeys(messages)

C16_Witness ==
    /\ params # Nil /\ op = "stream"
    /\ Len(messages) = 2
    /\ Len(messages[1].Parts) = 0
    /\ messages[2].Role = Tool /\ Len(ToolResults(messages[2])) = 2
    /\ Len(WireMessages) = 3

(***************************************************************************)
(* C19: NewProvider returns a Provider and no error, or no Provider and an *)
(* error that names the identifier; it ends in no other way.               *)
(***************************************************************************)
C19_NewProviderReturns ==
    pc # "new" =>
        /\ newProvider.panic = Nil
        /\ \/ newProvider.provider # Nil /\ newProvider.err = Nil
           \/ /\ newProvider.provider = Nil
              /\ newProvider.err = Some("provider not supported: " \o providerName)


(***************************************************************************)
(* C17: the FinishReason of every ProviderResponse, returned by send or    *)
(* carried by Complete, is one of Stop, Length, ToolCalls, ContentFilter,  *)
(* Unknown, also when no chunk of the stream carried a finish reason.      *)
(***************************************************************************)
FinishReasons ==
    {FinishReasonStop, FinishReasonLength, FinishReasonToolCalls, FinishReasonContentFilter,
     FinishReasonUnknown}

C17_FinishReasonInRange ==
    /\ result.resp # Nil => result.resp[1].FinishReason \in FinishReasons
    /\ \A i \in Positions(EventComplete) : events[i].Response[1].FinishReason \in FinishReasons

(***************************************************************************)
(* C18: every ContentDelta carries the text of its own chunk only, chunks  *)
(* without choices or without text contribute nothing, and the Content of  *)
(* the response carried by Complete is the concatenation of the payloads   *)
(* of the ContentDelta events in emission order.                           *)
(***************************************************************************)
RECURSIVE ChunkTexts(_)
ChunkTexts(chunks) ==
    IF chunks = <<>> THEN <<>>
    ELSE (IF Len(Head(chunks).Choices) = 0 \/ Head(chunks).Choices[1].Content = Nil
          THEN <<>> ELSE <<Head(chunks).Choices[1].Content[1]>>)
         \o ChunkTexts(Tail(chunks))

RECURSIVE ConcatContent(_)
ConcatContent(evs) ==
    IF evs = <<>> THEN "" ELSE Head(evs).Content \o ConcatContent(Tail(evs))

ContentDeltas == EventsOfType(events, EventContentDelta)

C18_ContentIsConcatenation ==
    /\ [i \in DOMAIN ContentDeltas |-> ContentDeltas[i].Content] = ChunkTexts(recvd)
    /\ \A i \in Positions(EventComplete) :
         events[i].Response[1].Content = ConcatContent(ContentDeltas)

C18_Witness ==
    /\ CleanEnd /\ Positions(EventComplete) # {}
    /\ Len(ContentDeltas) = 2
    /\ ContentDeltas[1].Content # ContentDeltas[2].Content
    /\ Last(events).Response[1].Content = ContentDeltas[1].Content \o ContentDeltas[2].Content


(***************************************************************************)
(* C20: a name or arguments fragment of a delta with index k is applied    *)
(* only to the tool call that a delta with index k started, whatever the   *)
(* order in which new indices appear.                                      *)
(***************************************************************************)
C20_FragmentReachesOwnCall ==
    \A fragment \in applied : startedBy[fragment[2]] = fragment[1]


(***************************************************************************)
(* What the consumer reads through the ToolCall pointer of events[i] at    *)
(* the current moment.  ToolUseStart points to the variable declared in    *)
(* the block that sent it (infineon.go:332-341), which nothing writes      *)
(* afterwards; ToolUseDelta points to a fresh value (355-359).  ToolUseStop *)
(* points to the loop variable (372-376): with one variable for the whole  *)
(* loop every ToolUseStop points to the same variable, which each          *)
(* iteration overwrites.                                                   *)
(***************************************************************************)
Pointee(i) ==
    IF events[i].Type = EventToolUseStop /\ ~rangeVarPerIteration
    THEN loopToolCall[1]
    ELSE events[i].ToolCall[1]

====
